---- MODULE Spec2Model ----
(***************************************************************************)
(* Model of backend/reranker/server.py: the /rerank handler of the        *)
(* Meeting Assistant Reranker.  The handler is a plain `def`, so the      *)
(* framework runs each request on a worker thread; the only object the    *)
(* threads share is the module-level CrossEncoder `model`.  A handler     *)
(* blocks in exactly one place, the call model.predict(pairs); a thread   *)
(* is therefore modelled by two steps, the one up to the call and the one *)
(* from the call's outcome to the end of the handler.                     *)
(***************************************************************************)
EXTENDS Integers, Sequences, FiniteSets

\* ---------------------------------------------------------------- bounds
MaxDocs == 2        \* longest documents list of a request

Calls == {"c1", "c2"}            \* worker threads serving requests
Ids == {"a", "b"}
Texts == {"t1", "t2"}
Queries == {"q"}
Scores == {0, 1}                 \* the relevance scores a scorer returns

\* ------------------------------------------------------------ data model
\* Document: id and text (metadata and score are never read by rerank)
Documents ==
    {[id |-> "a", text |-> "t1"], [id |-> "b", text |-> "t2"], [id |-> "a", text |-> "t2"]}

RECURSIVE SeqsUpTo(_, _)
SeqsUpTo(S, n) ==
    IF n = 0 THEN {<<>>}
    ELSE LET shorter == SeqsUpTo(S, n - 1)
         IN  shorter \cup {Append(s, x) : s \in {t \in shorter : Len(t) = n - 1}, x \in S}

\* RerankRequest: query and documents
RerankRequest == [query : Queries, documents : SeqsUpTo(Documents, MaxDocs)]

\* the locals of a thread that serves no request
NoPayload == [query |-> "q", documents |-> <<>>]

\* CrossEncoder(MODEL_NAME): a fixed scorer of (query, text) pairs
Models == [Queries \X Texts -> Scores]

VARIABLES
    model,      \* the process-wide CrossEncoder
    pc,         \* per thread: "idle", "predict" (inside model.predict), "done", "failed"
    payload,    \* per thread: the request being served
    pairs,      \* per thread: the batch handed to model.predict
    scores,     \* per thread: what model.predict returned
    results,    \* per thread: the results of the response
    raised      \* per thread: model.predict raised during this request

vars == <<model, pc, payload, pairs, scores, results, raised>>

\* ------------------------------------------------------------- functions
Min(a, b) == IF a <= b THEN a ELSE b

Reverse(s) == [i \in 1..Len(s) |-> s[Len(s) + 1 - i]]

\* pairs = [(payload.query, doc.text) for doc in payload.documents]
Pairs(p) == [i \in 1..Len(p.documents) |-> <<p.query, p.documents[i].text>>]

\* model.predict(pairs) of a scorer that honours its contract
Predict(m, batch) == [i \in 1..Len(batch) |-> m[batch[i]]]

\* float(score): a numpy float32 widened to a Python float, value unchanged
Float(x) == x

\* mutant of the zip: the documents are read from a module-level global that a
\* request received in the meantime has overwritten
ZipResultsShared(docs, scs) ==
    LET later == {d \in Calls : pc[d] = "predict" /\ payload[d].documents # docs}
        seen == IF later = {} THEN docs ELSE payload[CHOOSE d \in later : TRUE].documents
    IN  [i \in 1..Min(Len(seen), Len(scs)) |-> [id |-> seen[i].id, score |-> Float(scs[i])]]

\* [{"id": doc.id, "score": float(score)} for doc, score in zip(documents, scores)]:
\* zip stops at the shorter of its two arguments
ZipResults(docs, scs) ==
    [i \in 1..Min(Len(docs), Len(scs)) |-> [id |-> docs[i].id, score |-> Float(scs[i])]]

\* one step of the insertion sort list.sort runs on short lists: x goes after
\* every element that is not greater than it (x < y is the only comparison)
RECURSIVE InsertAsc(_, _)
InsertAsc(sorted, x) ==
    IF sorted = <<>> THEN <<x>>
    ELSE LET last == sorted[Len(sorted)]
         IN  IF x.score < last.score
             THEN Append(InsertAsc(SubSeq(sorted, 1, Len(sorted) - 1), x), last)
             ELSE Append(sorted, x)

RECURSIVE StableSortAsc(_)
StableSortAsc(rs) ==
    IF rs = <<>> THEN <<>>
    ELSE InsertAsc(StableSortAsc(SubSeq(rs, 1, Len(rs) - 1)), rs[Len(rs)])

\* mutants of the sort: the reverse flag dropped; sorted ascending and then reversed
SortAscending(rs) == StableSortAsc(rs)
SortThenReverse(rs) == Reverse(StableSortAsc(rs))

\* results.sort(key=lambda item: item["score"], reverse=True): list.sort reverses
\* the list, sorts it stably in ascending order, and reverses it again
SortDescending(rs) == Reverse(StableSortAsc(Reverse(rs)))

\* what model.predict may hand back for a batch when nothing is assumed of it
\* (too few scores, one per pair, or one too many)
AnyScores(batch) == SeqsUpTo(Scores, Len(batch) + 1)

\* --------------------------------------------------------------- actions
Idle ==
    /\ pc = [c \in Calls |-> "idle"]
    /\ payload = [c \in Calls |-> NoPayload]
    /\ pairs = [c \in Calls |-> <<>>]
    /\ scores = [c \in Calls |-> <<>>]
    /\ results = [c \in Calls |-> <<>>]
    /\ raised = [c \in Calls |-> FALSE]

\* model = CrossEncoder(MODEL_NAME), a scorer nothing is assumed of
Init == model = [p \in Queries \X Texts |-> 0] /\ Idle

\* model = CrossEncoder(MODEL_NAME), any deterministic scorer
InitDet == model \in Models /\ Idle

\* rerank(payload) up to the call of model.predict
Call(c) ==
    /\ pc[c] = "idle"
    /\ \E req \in RerankRequest :
        /\ payload' = [payload EXCEPT ![c] = req]
        /\ pairs' = [pairs EXCEPT ![c] = Pairs(req)]
    /\ pc' = [pc EXCEPT ![c] = "predict"]
    /\ UNCHANGED <<model, scores, results, raised>>

\* the rest of rerank once model.predict has returned `out`
Finish(c, out) ==
    /\ scores' = [scores EXCEPT ![c] = out]
    /\ results' = [results EXCEPT ![c] =
                      SortDescending(ZipResults(payload[c].documents, out))]
    /\ pc' = [pc EXCEPT ![c] = "done"]
    /\ UNCHANGED <<model, payload, pairs, raised>>

\* model.predict returns, whatever it returns
PredictReturn(c) ==
    /\ pc[c] = "predict"
    /\ \E out \in AnyScores(pairs[c]) : Finish(c, out)

\* mutant of the deterministic return: scoring leaves the model changed
PredictReturnDrift(c) ==
    /\ pc[c] = "predict"
    /\ scores' = [scores EXCEPT ![c] = Predict(model, pairs[c])]
    /\ results' = [results EXCEPT ![c] =
                      SortDescending(ZipResults(payload[c].documents, scores'[c]))]
    /\ pc' = [pc EXCEPT ![c] = "done"]
    /\ model' = [p \in DOMAIN model |-> 1 - model[p]]
    /\ UNCHANGED <<payload, pairs, raised>>

\* model.predict returns the scores of a deterministic scorer
PredictReturnDet(c) ==
    /\ pc[c] = "predict"
    /\ Finish(c, Predict(model, pairs[c]))

\* mutant of the raise: the handler catches it and answers with zero scores
PredictRaiseFallback(c) ==
    /\ pc[c] = "predict"
    /\ raised' = [raised EXCEPT ![c] = TRUE]
    /\ scores' = [scores EXCEPT ![c] = [i \in 1..Len(pairs[c]) |-> 0]]
    /\ results' = [results EXCEPT ![c] =
                      SortDescending(ZipResults(payload[c].documents, scores'[c]))]
    /\ pc' = [pc EXCEPT ![c] = "done"]
    /\ UNCHANGED <<model, payload, pairs>>

\* model.predict raises: nothing in rerank catches it
PredictRaise(c) ==
    /\ pc[c] = "predict"
    /\ raised' = [raised EXCEPT ![c] = TRUE]
    /\ pc' = [pc EXCEPT ![c] = "failed"]
    /\ UNCHANGED <<model, payload, pairs, scores, results>>

\* the response (or the error) has been sent: the locals are gone
Respond(c) ==
    /\ pc[c] \in {"done", "failed"}
    /\ pc' = [pc EXCEPT ![c] = "idle"]
    /\ payload' = [payload EXCEPT ![c] = NoPayload]
    /\ pairs' = [pairs EXCEPT ![c] = <<>>]
    /\ scores' = [scores EXCEPT ![c] = <<>>]
    /\ results' = [results EXCEPT ![c] = <<>>]
    /\ raised' = [raised EXCEPT ![c] = FALSE]
    /\ UNCHANGED model

Next ==
    \E c \in Calls :
        \/ Call(c)
        \/ PredictReturn(c)
        \/ PredictRaise(c)
        \/ Respond(c)

Spec == Init /\ [][Next]_vars

NextDet ==
    \E c \in Calls :
        \/ Call(c)
        \/ PredictReturnDet(c)
        \/ Respond(c)

SpecDet == InitDet /\ [][NextDet]_vars

\* ---------------------------------------------------------------- claims
Returned(c) == pc[c] = "done"
Docs(c) == payload[c].documents
IdSet(s) == {s[i].id : i \in DOMAIN s}
UniqueIds(docs) == \A i, j \in DOMAIN docs : docs[i].id = docs[j].id => i = j
\* the (id, score) pair of input position i of thread c
PairAt(c, i) == [id |-> Docs(c)[i].id, score |-> scores[c][i]]
IsPermutation(s, t) ==
    /\ Len(s) = Len(t)
    /\ \E f \in [DOMAIN s -> DOMAIN s] :
        /\ \A i, j \in DOMAIN s : f[i] = f[j] => i = j
        /\ \A i \in DOMAIN s : s[i] = t[f[i]]

\* C1: the results of every returned response are sorted by descending score:
\* results[i].score >= results[i+1].score for every adjacent pair.
C1_SortedDescending ==
    \A c \in Calls : Returned(c) =>
        \A i \in 1..(Len(results[c]) - 1) : results[c][i].score >= results[c][i + 1].score

\* a response whose two first scores came back in ascending order and were swapped
C1_Witness ==
    \E c \in Calls :
        /\ Returned(c)
        /\ Len(results[c]) >= 2
        /\ scores[c][1] < scores[c][2]
        /\ results[c][1].score > results[c][Len(results[c])].score

\* C2: the response has as many results as the request has documents, whatever
\* the scoring function returns.
C2_LengthPreserved ==
    \A c \in Calls : Returned(c) => Len(results[c]) = Len(Docs(c))

\* C3: when the scoring function returns a number of scores different from the
\* number of texts, rerank fails and returns no response.
C3_MismatchFails ==
    \A c \in Calls : Returned(c) => Len(scores[c]) = Len(pairs[c])

\* C4: a request with no documents returns empty results and the scoring
\* function is never invoked for it.
C4_EmptySkipsScoring ==
    \A c \in Calls :
        (pc[c] # "idle" /\ Docs(c) = <<>>) => (Returned(c) /\ results[c] = <<>>)

\* C5: ties are stable: of two input positions i < j that received equal scores,
\* the result of i comes before the result of j.
C5_StableTies ==
    \A c \in Calls : Returned(c) =>
        \A i, j \in 1..Min(Len(Docs(c)), Len(scores[c])) :
            (i < j /\ scores[c][i] = scores[c][j]) =>
                \E p, q \in DOMAIN results[c] :
                    p < q /\ results[c][p] = PairAt(c, i) /\ results[c][q] = PairAt(c, j)

\* a response with two documents of different ids and equal scores
C5_Witness ==
    \E c \in Calls :
        /\ Returned(c)
        /\ Len(results[c]) >= 2
        /\ \E i, j \in DOMAIN results[c] :
            i < j /\ scores[c][i] = scores[c][j] /\ Docs(c)[i].id # Docs(c)[j].id

\* C6: for a request with unique document ids that returns a response, the ids
\* of the results are exactly the ids of the documents.
C6_IdSetPreserved ==
    \A c \in Calls :
        (Returned(c) /\ UniqueIds(Docs(c))) => IdSet(results[c]) = IdSet(Docs(c))

\* C7: if the scoring call fails, rerank fails: the failure reaches the caller,
\* the scoring is not tried again and no results are produced.
C7_ScoringFailurePropagates ==
    \A c \in Calls : raised[c] => (pc[c] = "failed" /\ results[c] = <<>>)

\* a request with documents whose scoring call raised
C7_Witness ==
    \E c \in Calls : raised[c] /\ pc[c] = "failed" /\ Len(Docs(c)) >= 1

\* C8: the batch is built in input order with the query unmodified, and the
\* results are a permutation of the pairs (documents[i].id, scores[i]), one
\* for each input position.
C8_PositionalPairing ==
    \A c \in Calls : Returned(c) =>
        /\ pairs[c] = [i \in DOMAIN Docs(c) |-> <<payload[c].query, Docs(c)[i].text>>]
        /\ Len(scores[c]) >= Len(Docs(c))
        /\ IsPermutation(results[c], [i \in DOMAIN Docs(c) |-> PairAt(c, i)])

\* C9: with a deterministic scorer, two calls with identical requests produce
\* identical responses, whatever was served before or between them.
C9_Determinism ==
    \A c, d \in Calls :
        (Returned(c) /\ Returned(d) /\ payload[c] = payload[d]) => results[c] = results[d]

\* two threads that answered the same request, which the sort had to reorder
C9_Witness ==
    \E c, d \in Calls :
        /\ c # d
        /\ Returned(c) /\ Returned(d)
        /\ payload[c] = payload[d]
        /\ Len(results[c]) >= 2
        /\ results[c][1].id # Docs(c)[1].id

\* every result of a response pairs an id of the thread's own request with the
\* score its own scoring call returned for that position
OwnRequestOnly ==
    \A c \in Calls : Returned(c) =>
        \A k \in DOMAIN results[c] :
            \E i \in 1..Min(Len(Docs(c)), Len(scores[c])) : results[c][k] = PairAt(c, i)

\* C10: under any interleaving of concurrent calls, a response is built only
\* from the call's own request and its own scoring call, and no call
\* modifies the shared model.
C10_Isolation == []OwnRequestOnly /\ [][model' = model]_vars

\* one thread has answered while the other is inside model.predict for a
\* request with other documents
C10_Witness ==
    \E c, d \in Calls :
        /\ Returned(c) /\ pc[d] = "predict"
        /\ Len(results[c]) >= 1
        /\ IdSet(Docs(c)) # IdSet(Docs(d))
        /\ Docs(d) # <<>>
====
